---- MODULE Spec2Model ----
(***************************************************************************)
(* Tic-Tac-Toe "Perfect Play": the game session (logic.js), the board      *)
(* (board.js), the AI (minimax.js) and the statistics / local storage      *)
(* (stats.js), as a state machine.  One action per event handler of the    *)
(* page: a call of handlePlayerMove, the firing of an AI timer, startGame, *)
(* a page load (loadGameState) and the two buttons of the resume prompt.   *)
(***************************************************************************)
EXTENDS Integers, Sequences, FiniteSets, TLC

VARIABLES
    board,              \* GameBoard: the private 9-cell array
    currentPlayer,      \* logic.js: marker to move
    isGameActive,       \* logic.js: session in progress
    currentDifficulty,  \* logic.js
    currentMode,        \* logic.js
    stats,              \* stats.js: the in-memory statistics object
    storedState,        \* localStorage item STATE_KEY
    storedStats,        \* localStorage item STATS_KEY
    timers,             \* pending setTimeout(performAIMove, 700) callbacks, oldest first
    boardInteractive,   \* display.js: the board does not carry class board-inactive
    promptShown,        \* display.js: the resume prompt is on screen
    games,              \* number of startGame / resumeGame calls so far
    recorded,           \* recordGameResult calls since the last startGame / resumeGame
    lastOp,             \* what the last handler did
    aiResult,           \* value returned by the last getBestMove call
    held,               \* the array a caller of getBoard / setBoard holds
    quotaExceeded,      \* localStorage.setItem throws: the storage limit is reached
    shownLine,          \* winCondition of the showResult call of this game, if any
    movesMade           \* markCell calls that returned true in this game

vars == <<board, currentPlayer, isGameActive, currentDifficulty, currentMode,
          stats, storedState, storedStats, timers, boardInteractive, promptShown,
          games, recorded, lastOp, aiResult, held, quotaExceeded, shownLine,
          movesMade>>

(***************************************************************************)
(* Bounds of the model.                                                    *)
(***************************************************************************)
\* startGame / resumeGame calls in one behaviour (the first is the page load's)
MaxGames == 2
\* empty cells of the boards the hard search is run on in SpecAI
MaxSearchEmpty == 5
\* the highest cell the calls of SpecBoard touch
MaxCallCell == 2

(***************************************************************************)
(* Constants of the program.                                               *)
(***************************************************************************)
aiMarker == "O"
humanMarker == "X"
\* the score table of minimax.js
scoreO == 100
scoreX == -100
scoreDraw == 0
\* JavaScript's undefined, where the code yields it in place of a cell index
undefined == -2
\* the null winner passed to recordGameResult for a draw
null == "null"

Markers == {"X", "O"}
Cells == 0..8
Difficulties == {"easy", "medium", "hard"}
Modes == {"pvai", "pvp"}

winningConditions ==
    << <<0, 1, 2>>, <<3, 4, 5>>, <<6, 7, 8>>,
       <<0, 3, 6>>, <<1, 4, 7>>, <<2, 5, 8>>,
       <<0, 4, 8>>, <<2, 4, 6>> >>

emptyBoard == [i \in Cells |-> ""]

(***************************************************************************)
(* minimax.js                                                              *)
(***************************************************************************)
RECURSIVE spotsFrom(_, _)
spotsFrom(b, i) ==
    IF i > 8 THEN <<>>
    ELSE IF b[i] = "" THEN <<i>> \o spotsFrom(b, i + 1)
    ELSE spotsFrom(b, i + 1)

\* board.map((val, index) => val === "" ? index : -1).filter(i => i !== -1)
findEmptySpots(b) == spotsFrom(b, 0)

\* checkBoardWin over the rows and columns only
checkBoardWinNoDiagonals(b, marker) ==
    \E k \in 1..6 :
        /\ b[winningConditions[k][1]] = marker
        /\ b[winningConditions[k][2]] = marker
        /\ b[winningConditions[k][3]] = marker

checkBoardWin(b, marker) ==
    \E k \in 1..Len(winningConditions) :
        /\ b[winningConditions[k][1]] = marker
        /\ b[winningConditions[k][2]] = marker
        /\ b[winningConditions[k][3]] = marker

\* cells.findIndex(cell => cell === ""): 1-based position in the line, 0 for none
emptyIndexInCondition(b, cond) ==
    IF b[cond[1]] = "" THEN 1
    ELSE IF b[cond[2]] = "" THEN 2
    ELSE IF b[cond[3]] = "" THEN 3
    ELSE 0

\* the count of the cells of the line that hold any marker
markerCountOfAny(b, cond, marker) ==
    (IF b[cond[1]] # "" THEN 1 ELSE 0)
    + (IF b[cond[2]] # "" THEN 1 ELSE 0)
    + (IF b[cond[3]] # "" THEN 1 ELSE 0)

\* cells.filter(cell => cell === marker).length
markerCount(b, cond, marker) ==
    (IF b[cond[1]] = marker THEN 1 ELSE 0)
    + (IF b[cond[2]] = marker THEN 1 ELSE 0)
    + (IF b[cond[3]] = marker THEN 1 ELSE 0)

RECURSIVE strategicFrom(_, _, _)
strategicFrom(b, marker, k) ==
    IF k > Len(winningConditions) THEN -1
    ELSE LET cond == winningConditions[k]
             e == emptyIndexInCondition(b, cond)
         IN IF e # 0 /\ markerCount(b, cond, marker) = 2
            THEN cond[e]
            ELSE strategicFrom(b, marker, k + 1)

findStrategicMove(b, marker) == strategicFrom(b, marker, 1)

\* the recursion handed the AI's marker in both branches
opponentOfAlwaysAi(player) == aiMarker

\* the player of the recursive call: the human after the AI, the AI after the human
opponentOf(player) == IF player = aiMarker THEN humanMarker ELSE aiMarker

\* betterScore with the maximizer's comparison turned around
betterScoreTurned(player, score, best) ==
    IF ~best.set THEN TRUE
    ELSE score < best.score

\* betterScore letting a later move of equal score replace the best one
betterScoreLastWins(player, score, best) ==
    IF ~best.set THEN TRUE
    ELSE IF player = aiMarker THEN score >= best.score
    ELSE score <= best.score

\* the comparison of the selection loop: > for the maximizer, < for the minimizer;
\* the first move always beats the initial -Infinity / +Infinity
betterScore(player, score, best) ==
    IF ~best.set THEN TRUE
    ELSE IF player = aiMarker THEN score > best.score
    ELSE score < best.score

RECURSIVE minimax(_, _, _)
RECURSIVE selectMove(_, _, _, _)

\* the selection loop of minimax over moves, from moves[i] on; best is bestMove
\* and bestScore so far (set is false while bestScore is the initial infinity)
selectMove(player, moves, i, best) ==
    IF i > Len(moves) THEN [index |-> best.index, score |-> best.score]
    ELSE selectMove(player, moves, i + 1,
                    IF betterScore(player, moves[i].score, best)
                    THEN [index |-> moves[i].index, score |-> moves[i].score,
                          set |-> TRUE]
                    ELSE best)

\* minimax with terminal scores that do not depend on the depth
RECURSIVE minimaxNoDepth(_, _, _)
minimaxNoDepth(newBoard, player, depth) ==
    IF checkBoardWin(newBoard, humanMarker)
    THEN [index |-> undefined, score |-> scoreX]
    ELSE IF checkBoardWin(newBoard, aiMarker)
    THEN [index |-> undefined, score |-> scoreO]
    ELSE LET availableSpots == findEmptySpots(newBoard)
         IN IF Len(availableSpots) = 0
            THEN [index |-> undefined, score |-> scoreDraw]
            ELSE LET moves ==
                        [k \in 1..Len(availableSpots) |->
                            [index |-> availableSpots[k],
                             score |-> minimaxNoDepth([newBoard EXCEPT
                                                   ![availableSpots[k]] = player],
                                               opponentOf(player), depth + 1).score]]
                 IN selectMove(player, moves, 1,
                               [index |-> undefined, score |-> 0, set |-> FALSE])

\* the first loop fills moves: for each available spot, in order, the score of the
\* recursive call on a copy of the board with the player's marker on the spot
minimax(newBoard, player, depth) ==
    IF checkBoardWin(newBoard, humanMarker)
    THEN [index |-> undefined, score |-> scoreX + depth]
    ELSE IF checkBoardWin(newBoard, aiMarker)
    THEN [index |-> undefined, score |-> scoreO - depth]
    ELSE LET availableSpots == findEmptySpots(newBoard)
         IN IF Len(availableSpots) = 0
            THEN [index |-> undefined, score |-> scoreDraw]
            ELSE LET moves ==
                        [k \in 1..Len(availableSpots) |->
                            [index |-> availableSpots[k],
                             score |-> minimax([newBoard EXCEPT
                                                   ![availableSpots[k]] = player],
                                               opponentOf(player), depth + 1).score]]
                 IN selectMove(player, moves, 1,
                               [index |-> undefined, score |-> 0, set |-> FALSE])

\* the greatest depth argument among the calls of minimax that the call
\* minimax(newBoard, player, depth) makes, itself included: the same returns and
\* the same recursive calls, one for each available spot
RECURSIVE deepestCall(_, _, _)
deepestCall(newBoard, player, depth) ==
    IF checkBoardWin(newBoard, humanMarker) THEN depth
    ELSE IF checkBoardWin(newBoard, aiMarker) THEN depth
    ELSE IF Len(findEmptySpots(newBoard)) = 0 THEN depth
    ELSE \* index runs over availableSpots; the greatest of the depths below is
         \* taken as the size of the union of the 1..d, which grows with d
         Cardinality(UNION {1..deepestCall([newBoard EXCEPT ![index] = player],
                                           opponentOf(player), depth + 1) :
                            index \in {i \in Cells : newBoard[i] = ""}})

\* nextBoard naming the array of newBoard instead of a new one
spreadSameArray(b) == [shared |-> TRUE, cells |-> b]

\* [...newBoard]: a new array with the elements of newBoard
spread(b) == [shared |-> FALSE, cells |-> b]

RECURSIVE arrayAfterMinimax(_, _, _)
RECURSIVE arrayAfterSpots(_, _, _, _, _)

\* the elements of the array newBoard after the first loop of minimax has run
\* from availableSpots[i] on: each step writes the player's marker to nextBoard
\* and hands nextBoard to the recursive call
arrayAfterSpots(b, player, depth, spots, i) ==
    IF i > Len(spots) THEN b
    ELSE LET nextBoard == spread(b)
             written == [nextBoard.cells EXCEPT ![spots[i]] = player]
             after == arrayAfterMinimax(written, opponentOf(player), depth + 1)
         IN arrayAfterSpots(IF nextBoard.shared THEN after ELSE b,
                            player, depth, spots, i + 1)

\* the elements of the array newBoard when minimax(newBoard, player, depth) returns
arrayAfterMinimax(newBoard, player, depth) ==
    IF checkBoardWin(newBoard, humanMarker) \/ checkBoardWin(newBoard, aiMarker)
    THEN newBoard
    ELSE LET availableSpots == findEmptySpots(newBoard)
         IN IF Len(availableSpots) = 0 THEN newBoard
            ELSE arrayAfterSpots(newBoard, player, depth, availableSpots, 1)

\* the elements of the array handed to getBestMove when it returns; map, filter
\* and findIndex of findEmptySpots and findStrategicMove only read it
arrayAfterGetBestMove(b, difficulty) ==
    IF Len(findEmptySpots(b)) = 0 THEN b
    ELSE IF difficulty = "hard" THEN arrayAfterMinimax(b, aiMarker, 0)
    ELSE b

\* getBestMove preferring the center to the block at medium
getBestMoveCenterFirst(b, difficulty, rnd) ==
    LET availableMoves == findEmptySpots(b)
    IN IF Len(availableMoves) = 0 THEN -1
       ELSE IF difficulty = "hard" THEN minimax(b, aiMarker, 0).index
       ELSE LET winningMove == findStrategicMove(b, aiMarker)
                blockingMove == findStrategicMove(b, humanMarker)
            IN IF winningMove # -1 THEN winningMove
               ELSE IF b[4] = "" /\ difficulty = "medium" THEN 4
               ELSE IF blockingMove # -1 /\ difficulty = "medium" THEN blockingMove
               ELSE availableMoves[rnd + 1]

\* getBestMove blocking at easy as it does at medium
getBestMoveEasyBlocks(b, difficulty, rnd) ==
    LET availableMoves == findEmptySpots(b)
    IN IF Len(availableMoves) = 0 THEN -1
       ELSE IF difficulty = "hard" THEN minimax(b, aiMarker, 0).index
       ELSE LET winningMove == findStrategicMove(b, aiMarker)
                blockingMove == findStrategicMove(b, humanMarker)
            IN IF winningMove # -1 THEN winningMove
               ELSE IF blockingMove # -1 THEN blockingMove
               ELSE IF b[4] = "" /\ difficulty = "medium" THEN 4
               ELSE availableMoves[rnd + 1]

\* getBestMove answering cell 0 instead of -1 when no cell is empty
getBestMoveZeroWhenFull(b, difficulty, rnd) ==
    LET availableMoves == findEmptySpots(b)
    IN IF Len(availableMoves) = 0 THEN 0
       ELSE IF difficulty = "hard" THEN minimax(b, aiMarker, 0).index
       ELSE LET winningMove == findStrategicMove(b, aiMarker)
                blockingMove == findStrategicMove(b, humanMarker)
            IN IF winningMove # -1 THEN winningMove
               ELSE IF blockingMove # -1 /\ difficulty = "medium" THEN blockingMove
               ELSE IF b[4] = "" /\ difficulty = "medium" THEN 4
               ELSE availableMoves[rnd + 1]

\* getBestMove taking the centre on medium without looking whether it is empty
getBestMoveCenterUnchecked(b, difficulty, rnd) ==
    LET availableMoves == findEmptySpots(b)
    IN IF Len(availableMoves) = 0 THEN -1
       ELSE IF difficulty = "hard" THEN minimax(b, aiMarker, 0).index
       ELSE LET winningMove == findStrategicMove(b, aiMarker)
                blockingMove == findStrategicMove(b, humanMarker)
            IN IF winningMove # -1 THEN winningMove
               ELSE IF blockingMove # -1 /\ difficulty = "medium" THEN blockingMove
               ELSE IF difficulty = "medium" THEN 4
               ELSE availableMoves[rnd + 1]

\* rnd is Math.floor(Math.random() * availableMoves.length)
getBestMove(b, difficulty, rnd) ==
    LET availableMoves == findEmptySpots(b)
    IN IF Len(availableMoves) = 0 THEN -1
       ELSE IF difficulty = "hard" THEN minimax(b, aiMarker, 0).index
       ELSE LET winningMove == findStrategicMove(b, aiMarker)
                blockingMove == findStrategicMove(b, humanMarker)
            IN IF winningMove # -1 THEN winningMove
               ELSE IF blockingMove # -1 /\ difficulty = "medium" THEN blockingMove
               ELSE IF b[4] = "" /\ difficulty = "medium" THEN 4
               ELSE availableMoves[rnd + 1]

(***************************************************************************)
(* stats.js: LocalStore and StatsManager                                   *)
(***************************************************************************)
\* A localStorage item: absent, or the text written by setItem.  The text of a
\* JSON document is the sequence of its scalar values in document order.
absentItem == [present |-> FALSE, text |-> <<>>]
itemOf(text) == [present |-> TRUE, text |-> text]

\* JSON.stringify({ board, currentPlayer: player, mode, difficulty })
stringifyState(b, player, mode, difficulty) ==
    <<b[0], b[1], b[2], b[3], b[4], b[5], b[6], b[7], b[8], player, mode, difficulty>>

\* JSON.parse of such a text
parseState(text) ==
    [board |-> [i \in Cells |-> text[i + 1]],
     currentPlayer |-> text[10],
     mode |-> text[11],
     difficulty |-> text[12]]

zeroCounters == [wins |-> 0, losses |-> 0, draws |-> 0]

\* the initial value of the module-level stats object
initialStats ==
    [pvai |-> [total |-> zeroCounters, easy |-> zeroCounters,
               medium |-> zeroCounters, hard |-> zeroCounters],
     pvp |-> [X |-> zeroCounters, O |-> zeroCounters]]

countersText(c) == <<c.wins, c.losses, c.draws>>

\* JSON.stringify(stats)
stringifyStats(st) ==
    countersText(st.pvai.total) \o countersText(st.pvai.easy)
    \o countersText(st.pvai.medium) \o countersText(st.pvai.hard)
    \o countersText(st.pvp.X) \o countersText(st.pvp.O)

countersAt(text, k) == [wins |-> text[k], losses |-> text[k + 1], draws |-> text[k + 2]]

\* JSON.parse of such a text
parseStats(text) ==
    [pvai |-> [total |-> countersAt(text, 1), easy |-> countersAt(text, 4),
               medium |-> countersAt(text, 7), hard |-> countersAt(text, 10)],
     pvp |-> [X |-> countersAt(text, 13), O |-> countersAt(text, 16)]]

\* a text JSON.parse rejects: a document cut after its opening brace
malformedText == <<"{">>

\* the texts of the model that JSON.parse accepts: every text but the cut one,
\* which alone has one token
jsonParses(text) == Len(text) # Len(malformedText)

\* load letting the error of JSON.parse through
loadNoCatch(item, key, defaultData) ==
    IF ~item.present \/ Len(item.text) = 0
    THEN [value |-> defaultData, fellBack |-> TRUE, threw |-> FALSE]
    ELSE IF ~jsonParses(item.text)
    THEN [value |-> defaultData, fellBack |-> TRUE, threw |-> TRUE]
    ELSE [value |-> IF key = "state" THEN parseState(item.text)
                    ELSE parseStats(item.text),
          fellBack |-> FALSE, threw |-> FALSE]

\* LocalStore.load(key, defaultData) for the two JSON keys: the value returned,
\* whether it is defaultData, and whether an error leaves the function.  !data
\* holds for a missing item and for the empty string.
load(item, key, defaultData) ==
    IF ~item.present \/ Len(item.text) = 0
    THEN [value |-> defaultData, fellBack |-> TRUE, threw |-> FALSE]
    ELSE IF ~jsonParses(item.text)
    THEN [value |-> defaultData, fellBack |-> TRUE, threw |-> FALSE]
    ELSE [value |-> IF key = "state" THEN parseState(item.text)
                    ELSE parseStats(item.text),
          fellBack |-> FALSE, threw |-> FALSE]

\* loadStats taking the stored total as it is
loadStatsStoredTotal(item, defaultStats) == load(item, "stats", defaultStats).value

\* LocalStore.load(STATS_KEY, defaultStats), then the recomputation of the total
loadStats(item, defaultStats) ==
    LET loaded == load(item, "stats", defaultStats).value
        p == loaded.pvai
    IN [loaded EXCEPT !.pvai.total =
            [wins |-> p.easy.wins + p.medium.wins + p.hard.wins,
             losses |-> p.easy.losses + p.medium.losses + p.hard.losses,
             draws |-> p.easy.draws + p.medium.draws + p.hard.draws]]

\* recordGameResult counting a PvP draw for X only
recordGameResultDrawForX(st, winnerMarker, mode, difficulty) ==
    IF mode = "pvai"
    THEN LET result == IF winnerMarker = "X" THEN "wins"
                       ELSE IF winnerMarker = "O" THEN "losses"
                       ELSE "draws"
             st1 == [st EXCEPT !.pvai[difficulty][result] = @ + 1]
         IN [st1 EXCEPT !.pvai.total[result] = @ + 1]
    ELSE IF mode = "pvp"
    THEN IF winnerMarker = "X"
         THEN [st EXCEPT !.pvp.X.wins = @ + 1, !.pvp.O.losses = @ + 1]
         ELSE IF winnerMarker = "O"
         THEN [st EXCEPT !.pvp.O.wins = @ + 1, !.pvp.X.losses = @ + 1]
         ELSE [st EXCEPT !.pvp.X.draws = @ + 1]
    ELSE st

\* recordGameResult counting a PvP win for the winner only
recordGameResultWinnerOnly(st, winnerMarker, mode, difficulty) ==
    IF mode = "pvai"
    THEN LET result == IF winnerMarker = "X" THEN "wins"
                       ELSE IF winnerMarker = "O" THEN "losses"
                       ELSE "draws"
             st1 == [st EXCEPT !.pvai[difficulty][result] = @ + 1]
         IN [st1 EXCEPT !.pvai.total[result] = @ + 1]
    ELSE IF mode = "pvp"
    THEN IF winnerMarker = "X"
         THEN [st EXCEPT !.pvp.X.wins = @ + 1]
         ELSE IF winnerMarker = "O"
         THEN [st EXCEPT !.pvp.O.wins = @ + 1]
         ELSE [st EXCEPT !.pvp.X.draws = @ + 1, !.pvp.O.draws = @ + 1]
    ELSE st

\* recordGameResult counting every game against the AI in the easy bucket
recordGameResultEasyBucket(st, winnerMarker, mode, difficulty) ==
    IF mode = "pvai"
    THEN LET result == IF winnerMarker = "X" THEN "wins"
                       ELSE IF winnerMarker = "O" THEN "losses"
                       ELSE "draws"
             st1 == [st EXCEPT !.pvai.easy[result] = @ + 1]
         IN [st1 EXCEPT !.pvai.total[result] = @ + 1]
    ELSE IF mode = "pvp"
    THEN IF winnerMarker = "X"
         THEN [st EXCEPT !.pvp.X.wins = @ + 1, !.pvp.O.losses = @ + 1]
         ELSE IF winnerMarker = "O"
         THEN [st EXCEPT !.pvp.O.wins = @ + 1, !.pvp.X.losses = @ + 1]
         ELSE [st EXCEPT !.pvp.X.draws = @ + 1, !.pvp.O.draws = @ + 1]
    ELSE st

\* the in-memory effect of recordGameResult(winnerMarker, mode, difficulty)
recordGameResult(st, winnerMarker, mode, difficulty) ==
    IF mode = "pvai"
    THEN LET result == IF winnerMarker = "X" THEN "wins"
                       ELSE IF winnerMarker = "O" THEN "losses"
                       ELSE "draws"
             \* every difficulty names a bucket of stats.pvai
             st1 == [st EXCEPT !.pvai[difficulty][result] = @ + 1]
         IN [st1 EXCEPT !.pvai.total[result] = @ + 1]
    ELSE IF mode = "pvp"
    THEN IF winnerMarker = "X"
         THEN [st EXCEPT !.pvp.X.wins = @ + 1, !.pvp.O.losses = @ + 1]
         ELSE IF winnerMarker = "O"
         THEN [st EXCEPT !.pvp.O.wins = @ + 1, !.pvp.X.losses = @ + 1]
         ELSE [st EXCEPT !.pvp.X.draws = @ + 1, !.pvp.O.draws = @ + 1]
    ELSE st

(***************************************************************************)
(* board.js and logic.js.  The handlers are functions from the state of    *)
(* the page (a record of the variables) to its state when they return.     *)
(***************************************************************************)
Page ==
    [board |-> board, currentPlayer |-> currentPlayer, isGameActive |-> isGameActive,
     currentDifficulty |-> currentDifficulty, currentMode |-> currentMode,
     stats |-> stats, storedState |-> storedState, storedStats |-> storedStats,
     timers |-> timers, boardInteractive |-> boardInteractive,
     games |-> games, recorded |-> recorded, quotaExceeded |-> quotaExceeded,
     shownLine |-> shownLine, movesMade |-> movesMade, outcome |-> "none"]

\* the markers on b: as many as the game that b is the board of has had moves
markersOn(b) == Cardinality({i \in Cells : b[i] # ""})

\* no line has been handed to showResult
noLine == <<>>

\* LocalStore.save(key, data): the item under key after it, text being what
\* JSON.stringify(data) gives.  The error of setItem is caught and logged.
save(item, text, full) == IF full THEN item ELSE itemOf(text)

\* No handler of logic.js keeps the array it got from getBoard past its return:
\* between two handlers no caller holds one.  shared says that the array held is
\* the very array of GameBoard, not another array with the same cells.
noArray == [has |-> FALSE, shared |-> FALSE, cells |-> emptyBoard]

\* markCell without the test that the cell is empty
markCellOkAnyCell(b, index) == index \in Cells

\* markCell taking a cell that holds X for a free one
markCellOkOverX(b, index) == index \in Cells /\ b[index] # "O"

\* GameBoard.markCell: board[index] === "" is false for an occupied cell and for
\* any index that is no cell of the array (board[index] is undefined there)
markCellOk(b, index) == index \in Cells /\ b[index] = ""

\* markCell refusing an occupied cell and writing the marker all the same
markCellLastWins(b, index, playerMarker) ==
    IF index \in Cells
    THEN [board |-> [b EXCEPT ![index] = playerMarker], ok |-> b[index] = ""]
    ELSE [board |-> b, ok |-> FALSE]

\* GameBoard.markCell(index, playerMarker): the array after the call, and the
\* boolean returned
markCell(b, index, playerMarker) ==
    IF markCellOk(b, index)
    THEN [board |-> [b EXCEPT ![index] = playerMarker], ok |-> TRUE]
    ELSE [board |-> b, ok |-> FALSE]

\* GameBoard.getBoard(): the private array itself
getBoard(b) == [has |-> TRUE, shared |-> TRUE, cells |-> b]

\* GameBoard.setBoard(newBoard): the private variable now names the caller's array
setBoard(h) == [board |-> h.cells, held |-> [h EXCEPT !.shared = TRUE]]

\* GameBoard.reset(): a new array; the one handed out before is no longer the
\* array of GameBoard
reset(h) == [board |-> emptyBoard, held |-> [h EXCEPT !.shared = FALSE]]

\* StatsManager.recordGameResult, with its LocalStore.save(STATS_KEY, stats)
\* recordGameResult without its last statement, the save
recordResultUnsaved(s, winnerMarker) ==
    LET st == recordGameResult(s.stats, winnerMarker, s.currentMode, s.currentDifficulty)
    IN [s EXCEPT !.stats = st, !.recorded = @ + 1]

recordResult(s, winnerMarker) ==
    LET st == recordGameResult(s.stats, winnerMarker, s.currentMode, s.currentDifficulty)
    IN [s EXCEPT !.stats = st,
                 !.storedStats = save(s.storedStats, stringifyStats(st), s.quotaExceeded),
                 !.recorded = @ + 1]

saveGameState(s) ==
    IF s.isGameActive
    THEN [s EXCEPT !.storedState =
             save(s.storedState,
                  stringifyState(s.board, s.currentPlayer, s.currentMode,
                                 s.currentDifficulty),
                  s.quotaExceeded)]
    ELSE s

\* the AI's turn announced without a timer being set
scheduleAIMoveNoTimer(s) == [s EXCEPT !.boardInteractive = FALSE]

\* setTimeout(performAIMove, 700): the timer remembers the game that set it
scheduleAIMove(s) ==
    [s EXCEPT !.boardInteractive = FALSE, !.timers = Append(@, s.games)]

\* switchPlayer saving the game before it changes the current marker
switchPlayerSavesFirst(s) ==
    LET s1 == saveGameState(s)
        s2 == [s1 EXCEPT !.currentPlayer = IF @ = "X" THEN "O" ELSE "X"]
    IN IF s2.currentMode = "pvai" /\ s2.currentPlayer = "O" /\ s2.isGameActive
       THEN scheduleAIMove(s2)
       ELSE IF s2.currentMode = "pvai" /\ s2.currentPlayer = "X" /\ s2.isGameActive
       THEN [s2 EXCEPT !.boardInteractive = TRUE]
       ELSE s2

\* switchPlayer without its second branch, which gives the board back to the human
switchPlayerNoReenable(s) ==
    LET s1 == [s EXCEPT !.currentPlayer = IF @ = "X" THEN "O" ELSE "X"]
        s2 == saveGameState(s1)
    IN IF s2.currentMode = "pvai" /\ s2.currentPlayer = "O" /\ s2.isGameActive
       THEN scheduleAIMove(s2)
       ELSE s2

\* switchPlayer leaving the current marker as it is
switchPlayerSameMarker(s) ==
    LET s2 == saveGameState(s)
    IN IF s2.currentMode = "pvai" /\ s2.currentPlayer = "O" /\ s2.isGameActive
       THEN scheduleAIMove(s2)
       ELSE IF s2.currentMode = "pvai" /\ s2.currentPlayer = "X" /\ s2.isGameActive
       THEN [s2 EXCEPT !.boardInteractive = TRUE]
       ELSE s2

switchPlayer(s) ==
    LET s1 == [s EXCEPT !.currentPlayer = IF @ = "X" THEN "O" ELSE "X"]
        s2 == saveGameState(s1)
    IN IF s2.currentMode = "pvai" /\ s2.currentPlayer = "O" /\ s2.isGameActive
       THEN scheduleAIMove(s2)
       ELSE IF s2.currentMode = "pvai" /\ s2.currentPlayer = "X" /\ s2.isGameActive
       THEN [s2 EXCEPT !.boardInteractive = TRUE]
       ELSE s2

\* the first winning condition whose three cells hold the same marker, 0 for none
RECURSIVE winningLineFrom(_, _)
winningLineFrom(b, k) ==
    IF k > Len(winningConditions) THEN 0
    ELSE LET cond == winningConditions[k]
         IN IF b[cond[1]] # "" /\ b[cond[1]] = b[cond[2]] /\ b[cond[1]] = b[cond[3]]
            THEN k
            ELSE winningLineFrom(b, k + 1)

\* the loop of checkResult keeping the last line it finds
winningLineLast(b) ==
    LET found == {k \in 1..Len(winningConditions) :
                     LET cond == winningConditions[k]
                     IN b[cond[1]] # "" /\ b[cond[1]] = b[cond[2]] /\ b[cond[1]] = b[cond[3]]}
    IN IF found = {} THEN 0 ELSE CHOOSE k \in found : \A j \in found : j <= k

winningLine(b) == winningLineFrom(b, 1)

\* checkResult ending a drawn game without recording it
checkResultDrawUnrecorded(s) ==
    LET k == winningLine(s.board)
    IN IF k # 0
       THEN LET winner == s.board[winningConditions[k][1]]
                s1 == recordResult([s EXCEPT !.isGameActive = FALSE], winner)
            IN [state |-> [s1 EXCEPT !.boardInteractive = FALSE,
                                     !.storedState = absentItem,
                                     !.shownLine = winningConditions[k],
                                     !.outcome = "won"],
                over |-> TRUE]
       ELSE IF \A i \in Cells : s.board[i] # ""
       THEN [state |-> [s EXCEPT !.isGameActive = FALSE,
                                 !.boardInteractive = FALSE,
                                 !.storedState = absentItem,
                                 !.outcome = "drawn"],
             over |-> TRUE]
       ELSE [state |-> s, over |-> FALSE]

\* checkResult looking for the full board before it looks for a line
checkResultDrawFirst(s) ==
    IF \A i \in Cells : s.board[i] # ""
    THEN LET s1 == recordResult([s EXCEPT !.isGameActive = FALSE], null)
         IN [state |-> [s1 EXCEPT !.boardInteractive = FALSE,
                                  !.storedState = absentItem,
                                  !.outcome = "drawn"],
             over |-> TRUE]
    ELSE LET k == winningLine(s.board)
         IN IF k # 0
            THEN LET winner == s.board[winningConditions[k][1]]
                     s1 == recordResult([s EXCEPT !.isGameActive = FALSE], winner)
                 IN [state |-> [s1 EXCEPT !.boardInteractive = FALSE,
                                          !.storedState = absentItem,
                                          !.shownLine = winningConditions[k],
                                          !.outcome = "won"],
                     over |-> TRUE]
            ELSE [state |-> s, over |-> FALSE]

\* checkResult taking the winner to be the marker that does not hold the line
checkResultOtherMarker(s) ==
    LET k == winningLine(s.board)
    IN IF k # 0
       THEN LET winner == IF s.board[winningConditions[k][1]] = "X" THEN "O" ELSE "X"
                s1 == recordResult([s EXCEPT !.isGameActive = FALSE], winner)
            IN [state |-> [s1 EXCEPT !.boardInteractive = FALSE,
                                     !.storedState = absentItem,
                                     !.shownLine = winningConditions[k],
                                     !.outcome = "won"],
                over |-> TRUE]
       ELSE IF \A i \in Cells : s.board[i] # ""
       THEN LET s1 == recordResult([s EXCEPT !.isGameActive = FALSE], null)
            IN [state |-> [s1 EXCEPT !.boardInteractive = FALSE,
                                     !.storedState = absentItem,
                                     !.outcome = "drawn"],
                over |-> TRUE]
       ELSE [state |-> s, over |-> FALSE]

\* checkResult without its second part, the draw
checkResultNoDraw(s) ==
    LET k == winningLine(s.board)
    IN IF k # 0
       THEN LET winner == s.board[winningConditions[k][1]]
                s1 == recordResult([s EXCEPT !.isGameActive = FALSE], winner)
            IN [state |-> [s1 EXCEPT !.boardInteractive = FALSE,
                                     !.storedState = absentItem,
                                     !.shownLine = winningConditions[k],
                                     !.outcome = "won"],
                over |-> TRUE]
       ELSE [state |-> s, over |-> FALSE]

\* the state checkResult leaves, and the boolean it returns
checkResult(s) ==
    LET k == winningLine(s.board)
    IN IF k # 0
       THEN LET winner == s.board[winningConditions[k][1]]
                s1 == recordResult([s EXCEPT !.isGameActive = FALSE], winner)
            IN [state |-> [s1 EXCEPT !.boardInteractive = FALSE,
                                     !.storedState = absentItem,
                                     !.shownLine = winningConditions[k],
                                     !.outcome = "won"],
                over |-> TRUE]
       ELSE IF \A i \in Cells : s.board[i] # ""
       THEN LET s1 == recordResult([s EXCEPT !.isGameActive = FALSE], null)
            IN [state |-> [s1 EXCEPT !.boardInteractive = FALSE,
                                     !.storedState = absentItem,
                                     !.outcome = "drawn"],
                over |-> TRUE]
       ELSE [state |-> s, over |-> FALSE]

\* handlePlayerMove without the early return of a finished game
handlePlayerMoveUnguarded(s, index) ==
    IF markCellOk(s.board, index)
    THEN LET s1 == [s EXCEPT !.board[index] = s.currentPlayer, !.movesMade = @ + 1]
             r == checkResult(s1)
         IN IF ~r.over THEN [switchPlayer(r.state) EXCEPT !.outcome = "placed"]
            ELSE r.state
    ELSE [s EXCEPT !.outcome = "rejected"]

handlePlayerMove(s, index) ==
    IF ~s.isGameActive THEN [s EXCEPT !.outcome = "ignored"]
    ELSE IF markCellOk(s.board, index)
    THEN LET s1 == [s EXCEPT !.board[index] = s.currentPlayer, !.movesMade = @ + 1]
             r == checkResult(s1)
         IN IF ~r.over THEN [switchPlayer(r.state) EXCEPT !.outcome = "placed"]
            ELSE r.state
    ELSE [s EXCEPT !.outcome = "rejected"]

\* moveIndex is the value AILogic.getBestMove returned
performAIMove(s, moveIndex) ==
    IF moveIndex # -1 THEN handlePlayerMove(s, moveIndex)
    ELSE [s EXCEPT !.outcome = "nomove"]

\* startGame leaving the current marker as the last game left it
startGameKeepsMarker(s, settings, loadMode) ==
    LET s1 == IF ~loadMode
              THEN [s EXCEPT !.storedState = absentItem, !.board = emptyBoard,
                             !.movesMade = 0]
              ELSE s
        s2 == [s1 EXCEPT !.currentDifficulty = settings.difficulty,
                         !.currentMode = settings.mode,
                         !.isGameActive = TRUE,
                         !.boardInteractive = TRUE,
                         !.games = @ + 1,
                         !.recorded = 0, !.shownLine = noLine,
                         !.outcome = "started"]
    IN IF s2.currentMode = "pvai" /\ s2.currentPlayer = "O"
       THEN scheduleAIMove(s2)
       ELSE s2

\* startGame beginning the statistics anew with every game
startGameClearsStats(s, settings, loadMode) ==
    LET s1 == IF ~loadMode
              THEN [s EXCEPT !.storedState = absentItem, !.board = emptyBoard,
                             !.movesMade = 0]
              ELSE s
        s2 == [s1 EXCEPT !.currentDifficulty = settings.difficulty,
                         !.currentMode = settings.mode,
                         !.currentPlayer = "X",
                         !.isGameActive = TRUE,
                         !.boardInteractive = TRUE,
                         !.stats = initialStats,
                         !.games = @ + 1,
                         !.recorded = 0, !.shownLine = noLine,
                         !.outcome = "started"]
    IN IF s2.currentMode = "pvai" /\ s2.currentPlayer = "O"
       THEN scheduleAIMove(s2)
       ELSE s2

\* settings is what getCurrentSettings reads from the mode and difficulty radios
startGame(s, settings, loadMode) ==
    LET s1 == IF ~loadMode
              THEN [s EXCEPT !.storedState = absentItem, !.board = emptyBoard,
                             !.movesMade = 0]
              ELSE s
        s2 == [s1 EXCEPT !.currentDifficulty = settings.difficulty,
                         !.currentMode = settings.mode,
                         !.currentPlayer = "X",
                         !.isGameActive = TRUE,
                         !.boardInteractive = TRUE,
                         !.games = @ + 1,
                         !.recorded = 0, !.shownLine = noLine,
                         !.outcome = "started"]
    IN IF s2.currentMode = "pvai" /\ s2.currentPlayer = "O"
       THEN scheduleAIMove(s2)
       ELSE s2

\* resumeGame giving the turn to X whatever was saved
resumeGameAsX(s, data) ==
    LET s1 == [s EXCEPT !.board = data.board,
                        !.movesMade = markersOn(data.board),
                        !.currentPlayer = "X",
                        !.currentMode = data.mode,
                        !.currentDifficulty = data.difficulty,
                        !.isGameActive = TRUE,
                        !.boardInteractive = TRUE,
                        !.games = @ + 1,
                        !.recorded = 0, !.shownLine = noLine,
                        !.outcome = "resumed"]
    IN IF s1.currentMode = "pvai" /\ s1.currentPlayer = "O"
       THEN scheduleAIMove(s1)
       ELSE s1

resumeGame(s, data) ==
    LET s1 == [s EXCEPT !.board = data.board,
                        !.movesMade = markersOn(data.board),
                        !.currentPlayer = data.currentPlayer,
                        !.currentMode = data.mode,
                        !.currentDifficulty = data.difficulty,
                        !.isGameActive = TRUE,
                        !.boardInteractive = TRUE,
                        !.games = @ + 1,
                        !.recorded = 0, !.shownLine = noLine,
                        !.outcome = "resumed"]
    IN IF s1.currentMode = "pvai" /\ s1.currentPlayer = "O"
       THEN scheduleAIMove(s1)
       ELSE s1

\* the page as a fresh load of the script leaves it, before loadGameState runs:
\* the module-level initial values, no timer, the storage as it was
freshPage(s) ==
    [s EXCEPT !.board = emptyBoard, !.movesMade = 0,
              !.currentPlayer = "X", !.isGameActive = TRUE,
              !.currentDifficulty = "medium", !.currentMode = "pvai",
              !.stats = initialStats, !.timers = <<>>, !.boardInteractive = TRUE,
              !.recorded = 0, !.shownLine = noLine, !.outcome = "none"]

\* loadGameState shows the resume prompt instead of starting a game
resumePromptDue(item) ==
    LET loadedState == load(item, "state", null)
    IN /\ ~loadedState.fellBack
       /\ \E i \in Cells : loadedState.value.board[i] # ""

\* loadGameState; settings is what the radios hold when startGame() reads them
\* an error that leaves LocalStore.load leaves loadGameState where it is
loadGameState(s, settings) ==
    LET s1 == [s EXCEPT !.stats = loadStats(s.storedStats, s.stats)]
    IN IF load(s.storedStats, "stats", s.stats).threw
       THEN [s EXCEPT !.outcome = "threw"]
       ELSE IF load(s1.storedState, "state", null).threw
       THEN [s1 EXCEPT !.outcome = "threw"]
       ELSE IF resumePromptDue(s1.storedState)
       THEN [s1 EXCEPT !.outcome = "prompt"]
       ELSE startGame(s1, settings, FALSE)

(***************************************************************************)
(* The state machine                                                       *)
(***************************************************************************)
\* the variables take the values of page record s; op names the handler
Becomes(s, op) ==
    /\ board' = s.board
    /\ currentPlayer' = s.currentPlayer
    /\ isGameActive' = s.isGameActive
    /\ currentDifficulty' = s.currentDifficulty
    /\ currentMode' = s.currentMode
    /\ stats' = s.stats
    /\ storedState' = s.storedState
    /\ storedStats' = s.storedStats
    /\ timers' = s.timers
    /\ boardInteractive' = s.boardInteractive
    /\ games' = s.games
    /\ recorded' = s.recorded
    /\ lastOp' = [op |-> op, outcome |-> s.outcome]
    /\ held' = held
    /\ quotaExceeded' = s.quotaExceeded
    /\ shownLine' = s.shownLine
    /\ movesMade' = s.movesMade

settingsOf(mode, difficulty) == [mode |-> mode, difficulty |-> difficulty]

\* the page after its first load with an empty localStorage
InitWith(settingsSet) ==
    \E settings \in settingsSet :
        LET blank == [board |-> emptyBoard, currentPlayer |-> "X", isGameActive |-> TRUE,
                      currentDifficulty |-> "medium", currentMode |-> "pvai",
                      stats |-> initialStats, storedState |-> absentItem,
                      storedStats |-> absentItem, timers |-> <<>>,
                      boardInteractive |-> TRUE, games |-> 0, recorded |-> 0,
                      quotaExceeded |-> FALSE, shownLine |-> noLine, movesMade |-> 0,
                      outcome |-> "none"]
            s == loadGameState(blank, settings)
        IN /\ board = s.board
           /\ currentPlayer = s.currentPlayer
           /\ isGameActive = s.isGameActive
           /\ currentDifficulty = s.currentDifficulty
           /\ currentMode = s.currentMode
           /\ stats = s.stats
           /\ storedState = s.storedState
           /\ storedStats = s.storedStats
           /\ timers = s.timers
           /\ boardInteractive = s.boardInteractive
           /\ games = s.games
           /\ recorded = s.recorded
           /\ lastOp = [op |-> "load", outcome |-> s.outcome]
           /\ promptShown = FALSE
           /\ aiResult = -1
           /\ held = noArray
           /\ quotaExceeded = s.quotaExceeded
           /\ shownLine = s.shownLine
           /\ movesMade = s.movesMade

\* any call of GameController.handlePlayerMove(index)
HandlePlayerMove(index) ==
    /\ ~promptShown
    /\ Becomes(handlePlayerMove(Page, index), "move")
    /\ UNCHANGED <<promptShown, aiResult>>

\* a click on cell index of a board that accepts pointer events
CellClick(index) ==
    /\ ~promptShown
    /\ boardInteractive
    /\ index \in Cells
    /\ Becomes(handlePlayerMove(Page, index), "move")
    /\ UNCHANGED <<promptShown, aiResult>>

\* Math.random is consulted only for the fallback of easy and medium
randomChoices(b, difficulty) ==
    LET n == Len(findEmptySpots(b))
    IN IF difficulty = "hard" \/ n = 0 THEN {0} ELSE 0..(n - 1)

\* the oldest pending timer fires: performAIMove
AITimerFires ==
    /\ timers # <<>>
    /\ \E rnd \in randomChoices(board, currentDifficulty) :
          \E moveIndex \in {getBestMove(board, currentDifficulty, rnd)},
             searched \in {arrayAfterGetBestMove(board, currentDifficulty)} :
             Becomes(performAIMove([Page EXCEPT !.timers = Tail(@),
                                                !.board = searched], moveIndex),
                     "timer")
    /\ UNCHANGED <<promptShown, aiResult>>

\* the reset button, the close button of the result box, a change of the radios
StartGame(mode, difficulty) ==
    /\ ~promptShown
    /\ Becomes(startGame(Page, settingsOf(mode, difficulty), FALSE), "startGame")
    /\ UNCHANGED <<promptShown, aiResult>>

\* the page is loaded again: initializeApp, loadGameState
PageLoad(mode, difficulty) ==
    /\ LET s == loadGameState(freshPage(Page), settingsOf(mode, difficulty))
       IN /\ Becomes(s, "load")
          /\ promptShown' = (s.outcome = "prompt")
    /\ UNCHANGED aiResult

\* the resume button of the prompt
ResumeClick ==
    /\ promptShown
    /\ promptShown' = FALSE
    /\ LET gameStateData == load(storedState, "state", null)
       IN IF ~gameStateData.fellBack
          THEN Becomes(resumeGame(Page, gameStateData.value), "resumeGame")
          ELSE Becomes(Page, "resumeGame")
    /\ UNCHANGED aiResult

\* the new-game button of the prompt; showResumePrompt has set the radios to the
\* saved mode and difficulty
NewGameClick ==
    /\ promptShown
    /\ promptShown' = FALSE
    /\ LET data == parseState(storedState.text)
       IN Becomes(startGame(Page, settingsOf(data.mode, data.difficulty), FALSE),
                  "startGame")
    /\ UNCHANGED aiResult

\* the indices handlePlayerMove is called with: the cells, one below, one above
CallIndices == -1..9

(***************************************************************************)
(* Spec: the page as its user drives it.  Cells are clicked while the      *)
(* board accepts pointer events; the user plays against the medium AI or   *)
(* against another person, restarts and reloads the page at any moment.    *)
(***************************************************************************)
UserSettings == {settingsOf("pvai", "medium"), settingsOf("pvp", "medium")}

Init == InitWith(UserSettings)

Next ==
    \/ \E index \in Cells : CellClick(index)
    \/ AITimerFires
    \/ \E st \in UserSettings : games < MaxGames /\ StartGame(st.mode, st.difficulty)
    \/ \E st \in UserSettings : games < MaxGames /\ PageLoad(st.mode, st.difficulty)
    \/ ResumeClick
    \/ NewGameClick

Spec == Init /\ [][Next]_vars

(***************************************************************************)
(* SpecFair: the page of a user who plays against the medium AI, with the  *)
(* browser's promise that a timer that is due fires.                       *)
(***************************************************************************)
FairSettings == {settingsOf("pvai", "medium")}

InitFair == InitWith(FairSettings)

NextFair ==
    \/ \E index \in Cells : CellClick(index)
    \/ AITimerFires
    \/ \E st \in FairSettings : games < MaxGames /\ StartGame(st.mode, st.difficulty)
    \/ \E st \in FairSettings : games < MaxGames /\ PageLoad(st.mode, st.difficulty)
    \/ ResumeClick
    \/ NewGameClick

SpecFair == InitFair /\ [][NextFair]_vars /\ WF_vars(AITimerFires)

(***************************************************************************)
(* SpecStore: the page of a user who plays against the medium AI and       *)
(* reloads the page, over a localStorage that is also changed from outside *)
(* the page: an item removed, emptied or cut short, the statistics edited. *)
(***************************************************************************)
StoreSettings == {settingsOf("pvai", "medium")}

pageUnchanged ==
    UNCHANGED <<board, currentPlayer, isGameActive, currentDifficulty, currentMode,
                stats, timers, boardInteractive, promptShown, games, recorded,
                aiResult, held, shownLine, movesMade>>

storageUnchanged == pageUnchanged /\ UNCHANGED quotaExceeded

\* the storage limit of the origin is reached, or no longer is
QuotaChanges ==
    /\ quotaExceeded' = ~quotaExceeded
    /\ lastOp' = [op |-> "quota", outcome |-> "storage"]
    /\ UNCHANGED <<storedState, storedStats>>
    /\ pageUnchanged

\* the saved game state is replaced from outside the page
StateItemDamaged(item) ==
    /\ ~promptShown
    /\ storedState.present
    /\ storedState' = item
    /\ lastOp' = [op |-> "damage", outcome |-> "state"]
    /\ UNCHANGED storedStats
    /\ storageUnchanged

\* the stored statistics are replaced from outside the page
StatsItemDamaged(item) ==
    /\ ~promptShown
    /\ storedStats.present
    /\ storedStats' = item
    /\ lastOp' = [op |-> "damage", outcome |-> "stats"]
    /\ UNCHANGED storedState
    /\ storageUnchanged

\* the stored statistics are edited from outside the page: one win more in the total
StatsItemEdited ==
    /\ ~promptShown
    /\ ~load(storedStats, "stats", initialStats).fellBack
    /\ LET st == parseStats(storedStats.text)
       IN /\ st.pvai.total.wins = st.pvai.easy.wins + st.pvai.medium.wins
                                     + st.pvai.hard.wins
          /\ storedStats' = itemOf(stringifyStats([st EXCEPT !.pvai.total.wins = @ + 1]))
    /\ lastOp' = [op |-> "edit", outcome |-> "stats"]
    /\ UNCHANGED storedState
    /\ storageUnchanged

damagedItems == {absentItem, itemOf(<<>>), itemOf(malformedText)}

InitStore == InitWith(StoreSettings)

NextStore ==
    \/ \E index \in Cells : CellClick(index)
    \/ AITimerFires
    \/ \E st \in StoreSettings : games < MaxGames /\ PageLoad(st.mode, st.difficulty)
    \/ ResumeClick
    \/ NewGameClick
    \/ \E item \in damagedItems : StateItemDamaged(item)
    \/ \E item \in damagedItems : StatsItemDamaged(item)
    \/ StatsItemEdited

SpecStore == InitStore /\ [][NextStore]_vars

(***************************************************************************)
(* SpecQuota: the same page over a localStorage that may refuse a write.   *)
(***************************************************************************)
InitQuota == InitWith(StoreSettings)

NextQuota ==
    \/ \E index \in Cells : CellClick(index)
    \/ AITimerFires
    \/ \E st \in StoreSettings : games < MaxGames /\ PageLoad(st.mode, st.difficulty)
    \/ ResumeClick
    \/ NewGameClick
    \/ QuotaChanges

SpecQuota == InitQuota /\ [][NextQuota]_vars

(***************************************************************************)
(* SpecCalls: handlePlayerMove as an entry point, called with any index    *)
(* in any state of one game against the easy AI, from startGame on.        *)
(***************************************************************************)
CallSettings == {settingsOf("pvai", "easy")}

InitCalls == InitWith(CallSettings)

NextCalls ==
    \/ \E index \in CallIndices : HandlePlayerMove(index)
    \/ AITimerFires

SpecCalls == InitCalls /\ [][NextCalls]_vars

(***************************************************************************)
(* SpecHard: one game against the hard AI, from startGame to its end.      *)
(***************************************************************************)
HardSettings == {settingsOf("pvai", "hard")}

InitHard == InitWith(HardSettings)

NextHard ==
    \/ \E index \in Cells : CellClick(index)
    \/ AITimerFires

SpecHard == InitHard /\ [][NextHard]_vars

(***************************************************************************)
(* SpecAI and SpecSearch: getBestMove and performAIMove on given boards.   *)
(* The boards are those a game can show.  SpecAI takes                     *)
(* every difficulty, and runs the hard search on the boards with at most   *)
(* MaxSearchEmpty empty cells; SpecSearch runs the hard search on every    *)
(* board where O is to move.                                               *)
(***************************************************************************)
countOf(b, marker) == Cardinality({i \in Cells : b[i] = marker})

hasLine(b) == checkBoardWin(b, "X") \/ checkBoardWin(b, "O")

isFull(b) == \A i \in Cells : b[i] # ""

\* the boards a game can show: X and O placed in turn, X first, nothing placed
\* after a line is completed
PlayedBoards ==
    {b \in [Cells -> {"", "X", "O"}] :
        /\ countOf(b, "X") - countOf(b, "O") \in {0, 1}
        /\ ~(checkBoardWin(b, "X") /\ checkBoardWin(b, "O"))
        /\ checkBoardWin(b, "X") => countOf(b, "X") = countOf(b, "O") + 1
        /\ checkBoardWin(b, "O") => countOf(b, "X") = countOf(b, "O")}

\* the marker that placed last on b (X on the empty board)
lastMover(b) == IF countOf(b, "X") = countOf(b, "O") + 1 THEN "X" ELSE "O"

\* the page with board b on it, one AI timer pending; the current marker of a
\* finished game is still the one that placed last
InitOn(b, difficulty) ==
    /\ board = b
    /\ currentPlayer = (IF hasLine(b) \/ isFull(b) THEN lastMover(b)
                        ELSE IF lastMover(b) = "X" THEN "O" ELSE "X")
    /\ isGameActive = (~hasLine(b) /\ ~isFull(b))
    /\ currentDifficulty = difficulty
    /\ currentMode = "pvai"
    /\ stats = initialStats
    /\ storedState = absentItem
    /\ storedStats = absentItem
    /\ timers = <<1>>
    /\ boardInteractive = FALSE
    /\ promptShown = FALSE
    /\ games = 1
    /\ recorded = 0
    /\ lastOp = [op |-> "none", outcome |-> "none"]
    /\ aiResult = -1
    /\ held = noArray
    /\ quotaExceeded = FALSE
    /\ shownLine = noLine
    /\ movesMade = markersOn(b)

\* the first statements of performAIMove: the call of AILogic.getBestMove on the
\* array of GameBoard
CallGetBestMove ==
    /\ lastOp.op = "none"
    /\ \E rnd \in randomChoices(board, currentDifficulty) :
          aiResult' = getBestMove(board, currentDifficulty, rnd)
    /\ board' = arrayAfterGetBestMove(board, currentDifficulty)
    /\ lastOp' = [op |-> "getBestMove", outcome |-> "returned"]
    /\ UNCHANGED <<currentPlayer, isGameActive, currentDifficulty, currentMode,
                   stats, storedState, storedStats, timers, boardInteractive,
                   promptShown, games, recorded, held,
                   quotaExceeded, shownLine, movesMade>>

\* the rest of performAIMove, with the index getBestMove returned
CallPerformAIMove ==
    /\ lastOp.op = "getBestMove"
    /\ Becomes(performAIMove([Page EXCEPT !.timers = Tail(@)], aiResult), "performAIMove")
    /\ UNCHANGED <<promptShown, aiResult>>

InitAI ==
    \E b \in PlayedBoards, difficulty \in Difficulties :
        /\ difficulty = "hard" =>
              (hasLine(b) \/ Len(findEmptySpots(b)) <= MaxSearchEmpty)
        /\ InitOn(b, difficulty)

NextAI ==
    \/ CallGetBestMove
    \/ CallPerformAIMove

SpecAI == InitAI /\ [][NextAI]_vars

SearchBoards ==
    {b \in PlayedBoards : countOf(b, "X") = countOf(b, "O") + 1
                          /\ ~hasLine(b) /\ ~isFull(b)}

InitSearch == \E b \in SearchBoards : InitOn(b, "hard")

NextSearch == CallGetBestMove

SpecSearch == InitSearch /\ [][NextSearch]_vars

(***************************************************************************)
(* SpecTie: the hard search on the empty board and on every board without  *)
(* a line that has at most MaxSearchEmpty empty cells, whoever is to move. *)
(***************************************************************************)
TieBoards ==
    {emptyBoard} \cup
    {b \in PlayedBoards : ~hasLine(b) /\ ~isFull(b)
                          /\ Len(findEmptySpots(b)) <= MaxSearchEmpty}

InitTie == \E b \in TieBoards : InitOn(b, "hard")

NextTie == CallGetBestMove

SpecTie == InitTie /\ [][NextTie]_vars

(***************************************************************************)
(* SpecBoard: GameBoard as its callers may use it: getBoard, setBoard,     *)
(* reset and markCell in any order, the caller writing to the array it     *)
(* holds.  The calls touch the cells 0..MaxCallCell, and the indices -1    *)
(* and 9 outside the board.                                                *)
(***************************************************************************)
BoardCallIndices == {-1, 9} \cup (0..MaxCallCell)

boardOp(op, outcome, index, marker) ==
    [op |-> op, outcome |-> outcome, index |-> index, marker |-> marker]

GetBoard ==
    /\ held' = getBoard(board)
    /\ lastOp' = boardOp("getBoard", "returned", -1, "")
    /\ UNCHANGED <<board, currentPlayer, isGameActive, currentDifficulty, currentMode,
                   stats, storedState, storedStats, timers, boardInteractive,
                   promptShown, games, recorded, aiResult,
                   quotaExceeded, shownLine, movesMade>>

SetBoard ==
    /\ held.has
    /\ board' = setBoard(held).board
    /\ held' = setBoard(held).held
    /\ lastOp' = boardOp("setBoard", "returned", -1, "")
    /\ UNCHANGED <<currentPlayer, isGameActive, currentDifficulty, currentMode,
                   stats, storedState, storedStats, timers, boardInteractive,
                   promptShown, games, recorded, aiResult,
                   quotaExceeded, shownLine, movesMade>>

Reset ==
    /\ board' = reset(held).board
    /\ held' = reset(held).held
    /\ lastOp' = boardOp("reset", "returned", -1, "")
    /\ UNCHANGED <<currentPlayer, isGameActive, currentDifficulty, currentMode,
                   stats, storedState, storedStats, timers, boardInteractive,
                   promptShown, games, recorded, aiResult,
                   quotaExceeded, shownLine, movesMade>>

\* a write through the array of GameBoard is a write to the array held, if they
\* are one array
MarkCell(index, marker) ==
    /\ LET r == markCell(board, index, marker)
       IN /\ board' = r.board
          /\ held' = (IF held.shared THEN [held EXCEPT !.cells = r.board] ELSE held)
          /\ lastOp' = boardOp("markCell", IF r.ok THEN "true" ELSE "false",
                               index, marker)
    /\ UNCHANGED <<currentPlayer, isGameActive, currentDifficulty, currentMode,
                   stats, storedState, storedStats, timers, boardInteractive,
                   promptShown, games, recorded, aiResult,
                   quotaExceeded, shownLine, movesMade>>

\* the caller assigns to an element of the array it holds
CallerWrite(index, marker) ==
    /\ held.has
    /\ held' = [held EXCEPT !.cells[index] = marker]
    /\ board' = (IF held.shared THEN [board EXCEPT ![index] = marker] ELSE board)
    /\ lastOp' = boardOp("write", "done", index, marker)
    /\ UNCHANGED <<currentPlayer, isGameActive, currentDifficulty, currentMode,
                   stats, storedState, storedStats, timers, boardInteractive,
                   promptShown, games, recorded, aiResult,
                   quotaExceeded, shownLine, movesMade>>

InitBoard == InitWith({settingsOf("pvp", "medium")})

NextBoard ==
    \/ GetBoard
    \/ SetBoard
    \/ Reset
    \/ \E index \in BoardCallIndices, marker \in Markers : MarkCell(index, marker)
    \/ \E index \in 0..MaxCallCell, marker \in Markers : CallerWrite(index, marker)

SpecBoard == InitBoard /\ [][NextBoard]_vars

(***************************************************************************)
(* SpecWin: checkBoardWin called for either marker on every position of a  *)
(* game, finished or not.                                                  *)
(***************************************************************************)
CallCheckBoardWin(marker) ==
    /\ lastOp.op = "none"
    /\ lastOp' = boardOp("checkBoardWin",
                         IF checkBoardWin(board, marker) THEN "true" ELSE "false",
                         -1, marker)
    /\ UNCHANGED <<board, currentPlayer, isGameActive, currentDifficulty, currentMode,
                   stats, storedState, storedStats, timers, boardInteractive,
                   promptShown, games, recorded, aiResult, held,
                   quotaExceeded, shownLine, movesMade>>

InitWin == \E b \in PlayedBoards : InitOn(b, "hard")

NextWin == \E marker \in Markers : CallCheckBoardWin(marker)

SpecWin == InitWin /\ [][NextWin]_vars

(***************************************************************************)
(* The game of Tic-Tac-Toe itself, for reference: who wins a position      *)
(* under best play of both sides (1: O, 0: nobody, -1: X).                 *)
(***************************************************************************)
Lines == {{0, 1, 2}, {3, 4, 5}, {6, 7, 8}, {0, 3, 6}, {1, 4, 7}, {2, 5, 8},
          {0, 4, 8}, {2, 4, 6}}

owns(b, marker) == \E l \in Lines : \A i \in l : b[i] = marker

emptyCells(b) == {i \in Cells : b[i] = ""}

put(b, i, marker) == [b EXCEPT ![i] = marker]

RECURSIVE gameValue(_, _)
gameValue(b, toMove) ==
    IF owns(b, "O") THEN 1
    ELSE IF owns(b, "X") THEN -1
    ELSE IF emptyCells(b) = {} THEN 0
    ELSE IF toMove = "O"
    THEN IF \E i \in emptyCells(b) : gameValue(put(b, i, "O"), "X") = 1 THEN 1
         ELSE IF \E i \in emptyCells(b) : gameValue(put(b, i, "O"), "X") = 0 THEN 0
         ELSE -1
    ELSE IF \E i \in emptyCells(b) : gameValue(put(b, i, "X"), "O") = -1 THEN -1
         ELSE IF \E i \in emptyCells(b) : gameValue(put(b, i, "X"), "O") = 0 THEN 0
         ELSE 1

(***************************************************************************)
(* The claims                                                              *)
(***************************************************************************)

\* C1: in a game against the hard AI, X never completes a line: no win of the
\* human is recorded, and a finished game is a win of O or a full board.
C1_HardNeverLoses ==
    (currentMode = "pvai" /\ currentDifficulty = "hard") =>
        /\ ~checkBoardWin(board, humanMarker)
        /\ stats.pvai.hard.wins = 0
        /\ stats.pvai.total.wins = 0
        /\ ~isGameActive => (checkBoardWin(board, aiMarker) \/ isFull(board))

\* a game against the hard AI that the AI's timer ended with a line of O
C1_Witness ==
    /\ currentDifficulty = "hard"
    /\ ~isGameActive
    /\ checkBoardWin(board, aiMarker)
    /\ lastOp = [op |-> "timer", outcome |-> "won"]

\* C2: an AI timer set before the latest startGame / resumeGame places no marker
\* when it fires: it leaves the board and the current marker as they are.
C2_StaleTimerDiscarded ==
    [][(AITimerFires /\ Head(timers) # games) => UNCHANGED <<board, currentPlayer>>]_vars

\* C3: on a board without a line where O is to move, the cell the hard search
\* returns is empty and keeps the value of the position: O's best outcome under
\* best play of X (so it avoids a forced loss whenever some move does).
C3_HardMoveOptimal ==
    (lastOp.op = "getBestMove" /\ currentDifficulty = "hard"
        /\ ~hasLine(board) /\ ~isFull(board) /\ currentPlayer = "O") =>
        /\ aiResult \in emptyCells(board)
        /\ gameValue(put(board, aiResult, "O"), "X") = gameValue(board, "O")

\* the search has answered on a drawn position in which some move of O loses
C3_Witness ==
    /\ lastOp.op = "getBestMove"
    /\ currentDifficulty = "hard"
    /\ currentPlayer = "O"
    /\ ~hasLine(board)
    /\ Cardinality(emptyCells(board)) = 6
    /\ gameValue(board, "O") = 0
    /\ \E i \in emptyCells(board) : gameValue(put(board, i, "O"), "X") = -1
    /\ aiResult \in emptyCells(board)

\* C4: in a finished game a call of handlePlayerMove and the firing of an AI timer
\* change neither the board, the current marker, the active flag, the statistics
\* (in memory and stored) nor the saved game state.
C4_FinishedGameFrozen ==
    [][(~isGameActive /\ ((\E index \in CallIndices : HandlePlayerMove(index))
                          \/ AITimerFires))
        => UNCHANGED <<board, currentPlayer, isGameActive, currentMode,
                       currentDifficulty, stats, storedStats, storedState>>]_vars

\* handlePlayerMove has returned at once in a finished game
C4_Witness ==
    /\ ~isGameActive
    /\ lastOp = [op |-> "move", outcome |-> "ignored"]

\* C5: in a game in progress, handlePlayerMove with the index of an occupied cell
\* or with an index outside 0..8 changes nothing: no cell, not the current marker,
\* not the active flag, no statistics, no saved state, no timer.
C5_InvalidMoveNoOp ==
    [][\A index \in CallIndices :
          (isGameActive /\ ~(index \in Cells /\ board[index] = "")
              /\ HandlePlayerMove(index))
          => UNCHANGED <<board, currentPlayer, isGameActive, currentMode,
                         currentDifficulty, stats, storedStats, storedState,
                         timers, boardInteractive, recorded,
                   quotaExceeded, shownLine, movesMade>>]_vars

\* handlePlayerMove has refused an index in a game in progress
C5_Witness ==
    /\ isGameActive
    /\ lastOp = [op |-> "move", outcome |-> "rejected"]

\* C6: on a board with a completed line getBestMove returns -1, whatever the
\* difficulty and also when cells are still empty.
C6_WonBoardReturnsMinusOne ==
    (lastOp.op = "getBestMove" /\ hasLine(board)) => aiResult = -1

\* C7: on a board without an empty cell getBestMove returns -1 at every
\* difficulty, and performAIMove then places nothing.
C7_FullBoardNoMove ==
    /\ (lastOp.op = "getBestMove" /\ isFull(board)) => aiResult = -1
    /\ (lastOp.op = "performAIMove" /\ isFull(board)
           /\ lastOp.outcome \notin {"placed", "won", "drawn"})
        => (aiResult = -1 /\ lastOp.outcome = "nomove")

\* performAIMove has run on a full board and placed nothing
C7_Witness ==
    /\ isFull(board)
    /\ aiResult = -1
    /\ lastOp = [op |-> "performAIMove", outcome |-> "nomove"]

\* C8: a board with a completed line belongs to a finished game, and since the
\* last startGame / resumeGame recordGameResult has run once if the game is
\* finished and not at all if it is in progress.
C8_RecordedOnce ==
    /\ hasLine(board) => ~isGameActive
    /\ recorded = (IF isGameActive THEN 0 ELSE 1)

\* a game finished by a completed line, its result recorded
C8_Witness ==
    /\ ~isGameActive
    /\ hasLine(board)
    /\ recorded = 1
    /\ lastOp.outcome = "won"

\* C9: in PvP mode the move that fills the last cell without completing a line
\* ends the game, adds one draw to X and one draw to O and changes no other
\* counter.
C9_PvpDrawCounted ==
    [][(currentMode = "pvp" /\ ~isFull(board) /\ isFull(board') /\ ~hasLine(board'))
        => /\ ~isGameActive'
           /\ stats' = [stats EXCEPT !.pvp.X.draws = @ + 1, !.pvp.O.draws = @ + 1]]_vars

\* a PvP game has ended on a full board without a line
C9_Witness ==
    /\ currentMode = "pvp"
    /\ ~isGameActive
    /\ isFull(board)
    /\ ~hasLine(board)
    /\ stats.pvp.X.draws >= 1
    /\ stats.pvp.O.draws >= 1
    /\ lastOp.outcome = "drawn"

drawsCounted(st) ==
    st.pvai.total.draws + st.pvai.easy.draws + st.pvai.medium.draws
    + st.pvai.hard.draws + st.pvp.X.draws + st.pvp.O.draws

winsCounted(st) ==
    st.pvai.easy.wins + st.pvai.medium.wins + st.pvai.hard.wins + st.pvp.X.wins
    + st.pvp.O.wins

\* C10: the move that fills the ninth cell and completes a line ends the game as
\* won by the mover: a win is counted, for the marker just placed, and no draw.
C10_WinBeforeDraw ==
    [][(~isFull(board) /\ isFull(board') /\ hasLine(board'))
        => /\ ~isGameActive'
           /\ lastOp'.outcome = "won"
           /\ checkBoardWin(board', currentPlayer)
           /\ drawsCounted(stats') = drawsCounted(stats)
           /\ winsCounted(stats') = winsCounted(stats) + 1]_vars

\* a game won with the ninth marker
C10_Witness ==
    /\ ~isGameActive
    /\ isFull(board)
    /\ hasLine(board)
    /\ lastOp.outcome = "won"

\* C11: a click on a cell and the firing of an AI timer never change a cell that
\* holds a marker: between two resets of the board every cell is written at most
\* once, and never emptied.
C11_CellWrittenOnce ==
    [][(lastOp'.op \in {"move", "timer"})
        => \A i \in Cells : board[i] # "" => board'[i] = board[i]]_vars

\* a click on an occupied cell of a game in progress has been refused, the
\* board holding several markers
C11_Witness ==
    /\ lastOp = [op |-> "move", outcome |-> "rejected"]
    /\ countOf(board, "X") >= 2
    /\ countOf(board, "O") >= 2
    /\ \A i \in Cells : board[i] \in {"", "X", "O"}

\* C12: markCell(index, marker) returns true and writes the cell exactly when
\* index is one of 0..8 and the cell is empty; otherwise it returns false and
\* writes nothing.  After a successful call a second call on the same index
\* returns false and leaves the first marker, whatever marker it is given.
C12_MarkCellOnce ==
    [][\A index \in BoardCallIndices, marker \in Markers :
          MarkCell(index, marker) =>
             LET free == index \in Cells /\ board[index] = ""
             IN /\ lastOp'.outcome = (IF free THEN "true" ELSE "false")
                /\ board' = (IF free THEN [board EXCEPT ![index] = marker] ELSE board)
                /\ free => \A second \in Markers :
                              LET again == markCell(board', index, second)
                              IN /\ ~again.ok
                                 /\ again.board = board'
                                 /\ again.board[index] = marker]_vars

\* markCell has refused a cell that holds the other marker, which is still there
C12_Witness ==
    /\ lastOp.op = "markCell"
    /\ lastOp.outcome = "false"
    /\ lastOp.index \in Cells
    /\ board[lastOp.index] \in Markers
    /\ board[lastOp.index] # lastOp.marker

\* C13: the array a caller got from getBoard or passed to setBoard is its own:
\* a later markCell does not change the cells the caller holds, and a write of
\* the caller to its array does not change the cells of GameBoard.
C13_HeldBoardIndependent ==
    [][/\ (held.has /\ lastOp'.op = "markCell") => held'.cells = held.cells
       /\ (lastOp'.op = "write") => board' = board]_vars

\* C14: getBestMove leaves the array it is given as it was: at every difficulty
\* the cells of GameBoard after the call are the cells before it.
C14_GetBestMoveKeepsBoard ==
    [][(lastOp'.op = "getBestMove") => board' = board]_vars

\* the hard search has answered with a cell that is still empty on a board with
\* several empty cells
C14_Witness ==
    /\ lastOp.op = "getBestMove"
    /\ currentDifficulty = "hard"
    /\ ~hasLine(board)
    /\ Cardinality(emptyCells(board)) >= 4
    /\ aiResult \in emptyCells(board)

\* the empty cells that complete a line of marker
completions(b, marker) ==
    {i \in emptyCells(b) : \E l \in Lines : i \in l /\ \A j \in l \ {i} : b[j] = marker}

\* the board X,X,_,_,O,_,_,_,_
blockBoard == [emptyBoard EXCEPT ![0] = "X", ![1] = "X", ![4] = "O"]

\* C15: at medium, on a board without a line and with an empty cell, getBestMove
\* returns a cell completing a line of O if there is one; else a cell completing
\* a line of X if there is one; else cell 4 if it is empty; else an empty cell,
\* and then every empty cell is a possible answer.  On X,X,_,_,O,_,_,_,_ it
\* returns 2.
C15_MediumPriority ==
    (currentDifficulty = "medium" /\ ~hasLine(board) /\ ~isFull(board)) =>
        /\ (lastOp.op = "getBestMove") =>
               IF completions(board, "O") # {}
               THEN aiResult \in completions(board, "O")
               ELSE IF completions(board, "X") # {}
               THEN aiResult \in completions(board, "X")
               ELSE IF board[4] = "" THEN aiResult = 4
               ELSE aiResult \in emptyCells(board)
        /\ (lastOp.op = "none" /\ completions(board, "O") = {}
               /\ completions(board, "X") = {} /\ board[4] # "") =>
               \A c \in emptyCells(board) : ENABLED (CallGetBestMove /\ aiResult' = c)
        /\ (lastOp.op = "getBestMove" /\ board = blockBoard) => aiResult = 2

\* the medium AI has answered 2 on the board X,X,_,_,O,_,_,_,_
C15_Witness ==
    /\ currentDifficulty = "medium"
    /\ lastOp.op = "getBestMove"
    /\ board = blockBoard
    /\ aiResult = 2

\* C16: at easy, on a board without a line and with an empty cell, getBestMove
\* returns a cell completing a line of O if there is one; otherwise every empty
\* cell is a possible answer and nothing else is: a threat of X and an empty
\* center do not narrow the choice.
C16_EasyRandom ==
    (currentDifficulty = "easy" /\ ~hasLine(board) /\ ~isFull(board)) =>
        /\ (lastOp.op = "getBestMove") =>
               IF completions(board, "O") # {}
               THEN aiResult \in completions(board, "O")
               ELSE aiResult \in emptyCells(board)
        /\ (lastOp.op = "none" /\ completions(board, "O") = {}) =>
               \A c \in emptyCells(board) : ENABLED (CallGetBestMove /\ aiResult' = c)

\* the easy AI has answered with a cell that neither blocks the threat of X nor
\* is the empty center
C16_Witness ==
    /\ currentDifficulty = "easy"
    /\ lastOp.op = "getBestMove"
    /\ ~hasLine(board)
    /\ completions(board, "O") = {}
    /\ completions(board, "X") # {}
    /\ board[4] = ""
    /\ aiResult \in emptyCells(board) \ (completions(board, "X") \cup {4})

\* the lines in the order rows, columns, diagonals
orderedLines == << {0, 1, 2}, {3, 4, 5}, {6, 7, 8}, {0, 3, 6}, {1, 4, 7}, {2, 5, 8},
                   {0, 4, 8}, {2, 4, 6} >>

\* line l holds marker twice and has one empty cell
gapped(b, l, marker) ==
    /\ Cardinality({i \in l : b[i] = marker}) = 2
    /\ Cardinality({i \in l : b[i] = ""}) = 1

\* C17: findStrategicMove(board, marker) returns the empty cell of the first
\* line, in the order rows, columns, diagonals, that holds marker twice and has
\* one empty cell, and -1 if and only if no line is so.
C17_FirstGappedLine ==
    \A marker \in Markers :
        LET found == findStrategicMove(board, marker)
            ks == {k \in 1..Len(orderedLines) : gapped(board, orderedLines[k], marker)}
        IN IF ks = {} THEN found = -1
           ELSE \E k \in ks :
                   /\ \A j \in ks : k <= j
                   /\ found \in orderedLines[k]
                   /\ board[found] = ""

\* the easy AI has answered with the completion of the first of two lines that
\* hold O twice and have an empty cell, the completions being different cells
C17_Witness ==
    /\ lastOp.op = "getBestMove"
    /\ currentDifficulty = "easy"
    /\ ~hasLine(board)
    /\ Cardinality(completions(board, "O")) >= 2
    /\ aiResult = findStrategicMove(board, "O")
    /\ aiResult \in completions(board, "O")

\* the score minimax gives to O's move to cell i of board b
moveScore(b, i) == minimax(put(b, i, aiMarker), humanMarker, 1).score

\* the scores of O's moves on b
moveScores(b) == [i \in emptyCells(b) |-> moveScore(b, i)]

\* C18: whatever the hard search answers for a board is the one cell the board
\* determines: the lowest of the empty cells whose score is the highest for O;
\* on the empty board it is cell 0.
C18_LowestTopCell ==
    (lastOp.op = "getBestMove") =>
        /\ \E scoreOf \in {moveScores(board)} :
               /\ aiResult \in emptyCells(board)
               /\ \A j \in emptyCells(board) :
                     /\ scoreOf[j] <= scoreOf[aiResult]
                     /\ scoreOf[j] = scoreOf[aiResult] => aiResult <= j
        /\ board = emptyBoard => aiResult = 0

\* the search has answered cell 0 on the empty board, where every cell has the
\* highest score
C18_Witness ==
    /\ lastOp.op = "getBestMove"
    /\ board = emptyBoard
    /\ aiResult = 0
    /\ currentDifficulty = "hard"

leastOf(S) == CHOOSE x \in S : \A y \in S : x <= y

greatestOf(S) == CHOOSE x \in S : \A y \in S : y <= x

\* Who wins position b with toMove to move (v: 1 O, 0 nobody, -1 X) and after
\* how many plies (n), when the winner wins as soon and the loser loses as late
\* as can be.
RECURSIVE outcome(_, _)
outcome(b, toMove) ==
    IF owns(b, "O") THEN [v |-> 1, n |-> 0]
    ELSE IF owns(b, "X") THEN [v |-> -1, n |-> 0]
    ELSE IF emptyCells(b) = {} THEN [v |-> 0, n |-> 0]
    ELSE LET mine == IF toMove = "O" THEN 1 ELSE -1
             rs == [i \in emptyCells(b) |->
                       outcome(put(b, i, toMove), IF toMove = "O" THEN "X" ELSE "O")]
             wins == {i \in DOMAIN rs : rs[i].v = mine}
             draws == {i \in DOMAIN rs : rs[i].v = 0}
         IN IF wins # {} THEN [v |-> mine, n |-> 1 + leastOf({rs[i].n : i \in wins})]
            ELSE IF draws # {} THEN [v |-> 0, n |-> 0]
            ELSE [v |-> -mine, n |-> 1 + greatestOf({rs[i].n : i \in DOMAIN rs})]

\* C19: on a board without a line where O is to move, the hard search returns a
\* cell completing a line of O whenever there is one; and when every move of O
\* loses, it returns a move after which X needs as many plies to win as after
\* any other.
C19_QuickWinSlowLoss ==
    (lastOp.op = "getBestMove" /\ currentDifficulty = "hard" /\ currentPlayer = "O"
        /\ ~hasLine(board) /\ ~isFull(board)) =>
        /\ completions(board, "O") # {} => aiResult \in completions(board, "O")
        /\ \E rs \in {[i \in emptyCells(board) |-> outcome(put(board, i, "O"), "X")]} :
               (\A i \in DOMAIN rs : rs[i].v = -1) =>
                   /\ aiResult \in DOMAIN rs
                   /\ \A i \in DOMAIN rs : rs[i].n <= rs[aiResult].n

\* the search has answered on a board where every move of O loses, some sooner
\* than the one it chose
C19_Witness ==
    /\ lastOp.op = "getBestMove"
    /\ currentDifficulty = "hard"
    /\ currentPlayer = "O"
    /\ ~hasLine(board)
    /\ aiResult \in emptyCells(board)
    /\ \A i \in emptyCells(board) : outcome(put(board, i, "O"), "X").v = -1
    /\ \E i \in emptyCells(board) :
          outcome(put(board, i, "O"), "X").n < outcome(put(board, aiResult, "O"), "X").n

\* the page right after startGame(false) with the given settings selected
startedWith(mode, difficulty) ==
    /\ board' = emptyBoard
    /\ currentPlayer' = "X"
    /\ isGameActive'
    /\ currentMode' = mode
    /\ currentDifficulty' = difficulty
    /\ boardInteractive'
    /\ ~storedState'.present

\* C20: after startGame(false), whatever the state before (a game in progress,
\* won or drawn), the nine cells are empty, X is to move, the game is active,
\* mode and difficulty are the selected ones, the board accepts clicks and no
\* saved game is left in the storage.
C20_StartGameResets ==
    [][/\ \A st \in UserSettings :
             StartGame(st.mode, st.difficulty) => startedWith(st.mode, st.difficulty)
       /\ NewGameClick =>
             startedWith(parseState(storedState.text).mode,
                         parseState(storedState.text).difficulty)]_vars

\* a new game has been started after a finished one, whose result is counted
C20_Witness ==
    /\ lastOp.op = "startGame"
    /\ games = 2
    /\ stats # initialStats
    /\ board = emptyBoard
    /\ currentPlayer = "X"
    /\ isGameActive

aiToMove == currentMode = "pvai" /\ isGameActive /\ currentPlayer = "O"

\* an AI timer has placed a marker, and the game is over or X is to move
aiMoved ==
    /\ lastOp.op = "timer"
    /\ lastOp.outcome \in {"placed", "won", "drawn"}
    /\ ~isGameActive \/ currentPlayer = "X"

\* the user has restarted the game or reloaded the page
userRestarted == lastOp.op \in {"startGame", "load"}

\* C22: against the AI, a game in progress with O to move (after a move of the
\* human or after resumeGame) does not stall: if timers that are due fire, the AI
\* places its marker without any input of the user, after which the game is over
\* or X is to move, unless the user restarts the game or reloads the page first.
\* With the fairness of SpecFair, WF_vars(AITimerFires), this is
\*     aiToMove ~> (aiMoved \/ userRestarted)
\* and it follows from the three facts stated here: while O is to move a timer
\* is pending, so that AITimerFires is enabled; the firing of a timer then makes
\* the AI's move; and any other step leaves O to move or is a restart.
C22_AIMovesEventually ==
    /\ [](aiToMove => timers # <<>>)
    /\ [][(aiToMove /\ AITimerFires) => aiMoved']_vars
    /\ [][aiToMove => (aiToMove' \/ aiMoved' \/ userRestarted')]_vars

\* the AI has answered in a game resumed with O to move
C22_Witness ==
    /\ aiMoved
    /\ games = 2
    /\ countOf(board, "O") >= 1
    /\ currentMode = "pvai"

\* the item is missing, empty or not parsable
unusable(item) == ~item.present \/ Len(item.text) = 0 \/ ~jsonParses(item.text)

\* C23: LocalStore.load returns the default it is given when the item is missing
\* or its text is not parsable, and no error leaves it; so a page load over a
\* missing or unparsable saved game starts a new game, and one over missing or
\* unparsable statistics starts from the initial statistics.
C23_LoadFallsBack ==
    /\ \A key \in {"state", "stats"}, item \in {storedState, storedStats} :
          unusable(item) =>
             /\ load(item, key, null).value = null
             /\ load(item, key, null).fellBack
             /\ ~load(item, key, null).threw
    /\ [][(lastOp'.op = "load") =>
             /\ lastOp'.outcome # "threw"
             /\ unusable(storedState) =>
                   /\ lastOp'.outcome = "started"
                   /\ board' = emptyBoard
                   /\ isGameActive'
                   /\ ~promptShown'
             /\ unusable(storedStats) => stats' = initialStats]_vars

\* the page has been loaded over statistics that are not parsable and over a
\* saved game that was emptied: a new game is on, the statistics are the initial
C23_Witness ==
    /\ lastOp = [op |-> "load", outcome |-> "started"]
    /\ storedStats.present
    /\ ~jsonParses(storedStats.text)
    /\ stats = initialStats
    /\ board = emptyBoard
    /\ isGameActive
    /\ games = 2

\* the human-vs-AI total of st is the sum of the three difficulty buckets
totalIsSum(st) ==
    LET p == st.pvai
    IN /\ p.total.wins = p.easy.wins + p.medium.wins + p.hard.wins
       /\ p.total.losses = p.easy.losses + p.medium.losses + p.hard.losses
       /\ p.total.draws = p.easy.draws + p.medium.draws + p.hard.draws

\* C24: the statistics in memory always have a human-vs-AI total equal to the sum
\* of the easy, medium and hard buckets, for wins, losses and draws: loadStats
\* recomputes the total whatever total was stored, and recordGameResult adds the
\* same one to a bucket and to the total.
C24_TotalIsSum == totalIsSum(stats)

\* a game against the AI was recorded, the stored total was then edited, and the
\* page was loaded again over the edited statistics
C24_Witness ==
    /\ lastOp.op = "load"
    /\ ~load(storedStats, "stats", initialStats).fellBack
    /\ ~totalIsSum(parseStats(storedStats.text))
    /\ stats.pvai.medium # zeroCounters
    /\ totalIsSum(stats)

\* the statistics under the stats key are those in memory
storedStatsCurrent ==
    /\ ~load(storedStats, "stats", initialStats).fellBack
    /\ load(storedStats, "stats", initialStats).value = stats

\* C25 as stated: right after every terminal game outcome the statistics stored
\* under the stats key equal the statistics in memory.
C25_StoredStatsCurrent ==
    (lastOp.outcome \in {"won", "drawn"}) => storedStatsCurrent

\* C25: right after a terminal game outcome the statistics stored under the stats
\* key equal the statistics in memory if localStorage took the write; if setItem
\* threw, the error is swallowed and the stored statistics are what they were.
C25_StoredStatsCurrentIfWritten ==
    /\ []((lastOp.outcome \in {"won", "drawn"} /\ ~quotaExceeded) => storedStatsCurrent)
    /\ [][(lastOp'.outcome \in {"won", "drawn"} /\ quotaExceeded)
             => storedStats' = storedStats]_vars

\* a game has just ended, the write was taken, and the stored statistics count it
C25_Witness ==
    /\ lastOp.outcome \in {"won", "drawn"}
    /\ ~quotaExceeded
    /\ stats # initialStats
    /\ storedStatsCurrent

\* the eighteen counters of st, in one order
counters(st) == stringifyStats(st)

\* C26: no step of startGame, resumeGame, handlePlayerMove or of the AI timer
\* lowers a win, loss or draw counter of the statistics in memory.
C26_CountersNeverDecrease ==
    [][(lastOp'.op \in {"startGame", "resumeGame", "move", "timer"})
          => \E old \in {counters(stats)}, new \in {counters(stats')} :
                \A k \in 1..Len(old) : new[k] >= old[k]]_vars

\* a new game has been started after a game that was counted
C26_Witness ==
    /\ lastOp.op = "startGame"
    /\ games = 2
    /\ stats # initialStats

\* the counter a game against the AI is counted in: X is the human
resultOf(winner) ==
    IF winner = "X" THEN "wins" ELSE IF winner = "O" THEN "losses" ELSE "draws"

\* st with one more result in the bucket of difficulty and in the total, and
\* nothing else changed
bumped(st, difficulty, result) ==
    [pvai |-> [bucket \in {"total", "easy", "medium", "hard"} |->
                  [counter \in {"wins", "losses", "draws"} |->
                      IF bucket \in {"total", difficulty} /\ counter = result
                      THEN st.pvai[bucket][counter] + 1
                      ELSE st.pvai[bucket][counter]]],
     pvp |-> st.pvp]

\* the winner of a finished game on b, null for a draw
winnerOn(b) == IF owns(b, "X") THEN "X" ELSE IF owns(b, "O") THEN "O" ELSE null

\* C27: in human-vs-AI mode recordGameResult adds one to the counter of the
\* result (win for X, loss for O, draw otherwise) in the bucket of the difficulty
\* it is given and in the total, and changes nothing else; every finished game of
\* the page is counted so with the difficulty of the session; a finished PvP game
\* changes no human-vs-AI counter.
C27_OnlySessionBucket ==
    /\ [](\A difficulty \in Difficulties, winner \in {"X", "O", null} :
             /\ recordGameResult(stats, winner, "pvai", difficulty)
                   = bumped(stats, difficulty, resultOf(winner))
             /\ recordGameResult(stats, winner, "pvp", difficulty).pvai = stats.pvai)
    /\ [][(lastOp'.outcome \in {"won", "drawn"}) =>
             IF currentMode = "pvai"
             THEN stats' = bumped(stats, currentDifficulty, resultOf(winnerOn(board')))
             ELSE stats'.pvai = stats.pvai /\ stats'.pvp # stats.pvp]_vars

\* the AI has just won a game of a session on medium: one loss in the medium
\* bucket and in the total, the other buckets and the PvP counters untouched
C27_Witness ==
    /\ lastOp = [op |-> "timer", outcome |-> "won"]
    /\ currentMode = "pvai"
    /\ currentDifficulty = "medium"
    /\ stats.pvai.medium.losses = 1
    /\ stats.pvai.total.losses = 1
    /\ stats.pvai.easy = zeroCounters
    /\ stats.pvai.hard = zeroCounters
    /\ stats.pvp = initialStats.pvp

\* b with every X turned into an O and every O into an X
relabeled(b) ==
    [i \in Cells |-> IF b[i] = "X" THEN "O" ELSE IF b[i] = "O" THEN "X" ELSE ""]

\* C28: checkBoardWin(board, marker) is true exactly when one of the eight lines
\* holds marker in its three cells, and it gives the same answer for the other
\* marker on the board with X and O exchanged.
C28_CheckBoardWinLines ==
    (lastOp.op = "checkBoardWin") =>
        /\ (lastOp.outcome = "true") = owns(board, lastOp.marker)
        /\ (lastOp.outcome = "true")
              = checkBoardWin(relabeled(board), opponentOf(lastOp.marker))

\* checkBoardWin has answered true for O on a board whose only line of O is a
\* diagonal
C28_Witness ==
    /\ lastOp.op = "checkBoardWin"
    /\ lastOp.outcome = "true"
    /\ lastOp.marker = "O"
    /\ board[2] = "O" /\ board[4] = "O" /\ board[6] = "O"
    /\ board[0] = "X" /\ board[8] = "X"

\* the eight lines in the order of winningConditions: rows, columns, diagonals
lineOrder ==
    << <<0, 1, 2>>, <<3, 4, 5>>, <<6, 7, 8>>, <<0, 3, 6>>, <<1, 4, 7>>, <<2, 5, 8>>,
       <<0, 4, 8>>, <<2, 4, 6>> >>

\* the three cells of line hold marker on b
filledBy(b, line, marker) == \A n \in 1..3 : b[line[n]] = marker

\* C29: when a win is declared, the line handed to showResult is the first line,
\* in the order rows, columns, diagonals, whose three cells hold the winner's
\* marker; so it is when the winning move completed two lines.
C29_FirstLineReported ==
    (lastOp.outcome = "won") =>
        \E k \in 1..Len(lineOrder) :
            /\ shownLine = lineOrder[k]
            /\ filledBy(board, lineOrder[k], winnerOn(board))
            /\ \A j \in 1..(k - 1) : ~filledBy(board, lineOrder[j], winnerOn(board))

\* a win has been declared on a board where the winner holds two lines, and the
\* earlier of the two was handed to showResult
C29_Witness ==
    /\ lastOp.outcome = "won"
    /\ \E j, k \in 1..Len(lineOrder) :
          /\ j < k
          /\ filledBy(board, lineOrder[j], winnerOn(board))
          /\ filledBy(board, lineOrder[k], winnerOn(board))
          /\ shownLine = lineOrder[j]

\* the number of cells of b that hold a marker
filled(b) == Cardinality(Cells \ emptyCells(b))

\* a game in progress shows no complete line and has an empty cell
overWhenDone ==
    isGameActive => (~isFull(board) /\ ~owns(board, "X") /\ ~owns(board, "O"))

\* where the AI is to move, the search on the board goes no deeper than the
\* board has empty cells
searchBounded ==
    (isGameActive /\ currentPlayer = aiMarker)
        => deepestCall(board, aiMarker, 0) <= Cardinality(emptyCells(board))

\* the search from the empty board, the longest there is, goes 9 deep
searchBoundedFromEmpty ==
    (movesMade = 0) => deepestCall(emptyBoard, aiMarker, 0) = 9

\* C30: a game never has more than 9 successful moves, it is over after the
\* ninth, and it is over as soon as a line is complete or the board is full, so
\* a game started by startGame is won or drawn after at most 9 successful moves; the search that
\* getBestMove starts on the board of the game ends, and none of its calls of
\* minimax is deeper than the number of empty cells of that board; the search
\* from the empty board goes 9 deep.
C30_GameAndSearchEnd ==
    /\ movesMade <= 9
    /\ movesMade = 9 => ~isGameActive
    /\ overWhenDone
    /\ searchBounded
    /\ searchBoundedFromEmpty

\* the ninth move has ended a game in a draw, after searches that went as deep as
\* there were empty cells
C30_Witness ==
    /\ lastOp.outcome = "drawn"
    /\ movesMade = 9
    /\ filled(board) = 9
    /\ ~isGameActive
    /\ \E i \in Cells :
          /\ board[i] = "O"
          /\ deepestCall(put(put(board, i, ""), 8, ""), aiMarker, 0) = 2

\* C31: on every board of the page the X cells are as many as the O cells or one
\* more, and while a game is in progress the current marker is X exactly when
\* they are as many; whatever human moves, restarts, reloads and AI timer
\* firings came before.
C31_TurnsAlternate ==
    /\ countOf(board, "X") - countOf(board, "O") \in {0, 1}
    /\ isGameActive =>
          ((currentPlayer = "X") <=> (countOf(board, "X") = countOf(board, "O")))

\* a second game, restarted while an AI timer was pending, with O to move after
\* that timer placed the X of the human
C31_Witness ==
    /\ games = 2
    /\ isGameActive
    /\ currentMode = "pvai"
    /\ currentPlayer = "O"
    /\ lastOp = [op |-> "timer", outcome |-> "placed"]
    /\ countOf(board, "X") = 1
    /\ countOf(board, "O") = 0

\* C32: in human-vs-AI mode every marker placed by an AI timer callback is an O
\* and every marker placed by a call coming from the human is an X; a call
\* coming from the human while the current marker is O places nothing.
C32_MarkersByOwner ==
    [][(currentMode = "pvai" /\ isGameActive
           /\ lastOp'.op \in {"move", "timer"} /\ movesMade' = movesMade + 1)
          => (currentPlayer = (IF lastOp'.op = "timer" THEN "O" ELSE "X"))]_vars

\* a human is to move: any marker in PvP, X against the AI
humanToMove == currentMode = "pvp" \/ currentPlayer = "X"

\* C33: after startGame, resumeGame, handlePlayerMove and an AI timer firing the
\* board takes clicks exactly when a game is in progress and a human is to move;
\* it takes none when the game is over or the AI is to move.
C33_InteractiveWhenHumanToMove ==
    (lastOp.op \in {"startGame", "resumeGame", "move", "timer"})
        => (boardInteractive <=> (isGameActive /\ humanToMove))

\* the AI has answered a move of the human: the board, closed while the timer was
\* pending, takes clicks again
C33_Witness ==
    /\ lastOp = [op |-> "timer", outcome |-> "placed"]
    /\ currentMode = "pvai"
    /\ isGameActive
    /\ currentPlayer = "X"
    /\ boardInteractive
    /\ countOf(board, "O") = 1

\* C34: when a move ends in a win, the winner that is recorded and whose line is
\* shown is the current marker of that move, the marker just placed; and no
\* board of the page shows a complete line of X and a complete line of O.
C34_WinnerIsMover ==
    /\ [](~(owns(board, "X") /\ owns(board, "O")))
    /\ [][(lastOp'.outcome = "won") =>
             /\ owns(board', currentPlayer)
             /\ ~owns(board', opponentOf(currentPlayer))
             /\ filledBy(board', shownLine', currentPlayer)
             /\ stats' = recordGameResult(stats, currentPlayer, currentMode,
                                          currentDifficulty)]_vars

\* O has won a PvP game with its own move, and the win is counted for O
C34_Witness ==
    /\ lastOp = [op |-> "move", outcome |-> "won"]
    /\ currentMode = "pvp"
    /\ currentPlayer = "O"
    /\ owns(board, "O")
    /\ stats.pvp.O.wins = 1
    /\ stats.pvp.X.losses = 1

\* the saved game state is the game of the session
savedIsSession ==
    /\ ~load(storedState, "state", null).fellBack
    /\ load(storedState, "state", null).value
          = [board |-> board, currentPlayer |-> currentPlayer,
             mode |-> currentMode, difficulty |-> currentDifficulty]

\* a saved game state holds a game in progress
savedInProgress ==
    ~load(storedState, "state", null).fellBack =>
        LET saved == load(storedState, "state", null).value.board
        IN ~owns(saved, "X") /\ ~owns(saved, "O") /\ emptyCells(saved) # {}

\* no game state is saved after a move that ended the game and after startGame
noneSavedAfterEnd ==
    (lastOp.outcome \in {"won", "drawn", "started"}) => ~storedState.present

\* C35 as stated: after every successful move that does not end the game the
\* saved game state is the board, the marker to move, the mode and the
\* difficulty of the session; a saved state never holds a finished board; after
\* a move that ends the game and after startGame no saved state exists.
C35_SavedState ==
    /\ (lastOp.outcome = "placed") => savedIsSession
    /\ savedInProgress
    /\ noneSavedAfterEnd

\* C35: the same, where localStorage took the write of the move; where setItem
\* threw, the error is swallowed and the saved state is what it was before.
C35_SavedStateIfWritten ==
    /\ []((lastOp.outcome = "placed" /\ ~quotaExceeded) => savedIsSession)
    /\ [](savedInProgress /\ noneSavedAfterEnd)
    /\ [][(lastOp'.outcome = "placed" /\ quotaExceeded)
             => storedState' = storedState]_vars

\* the AI has placed its second marker, the write was taken, and the saved state
\* is the game of the session with X to move
C35_Witness ==
    /\ lastOp = [op |-> "timer", outcome |-> "placed"]
    /\ ~quotaExceeded
    /\ movesMade = 4
    /\ currentPlayer = "X"
    /\ savedIsSession

\* C36: on a board without a complete line and with an empty cell, getBestMove
\* returns, for every difficulty and every random choice, the index of an empty
\* cell; and performAIMove on such a board places the marker: its move is
\* neither missing nor refused.
C36_MoveOnEmptyCell ==
    /\ (lastOp.op = "getBestMove" /\ isGameActive)
          => (aiResult \in Cells /\ board[aiResult] = "")
    /\ (lastOp.op = "performAIMove" /\ lastOp.outcome \in {"nomove", "rejected"})
          => (hasLine(board) \/ isFull(board))

\* on easy, getBestMove has picked the last of several empty cells of a board
\* with no line to complete
C36_Witness ==
    /\ lastOp.op = "getBestMove"
    /\ isGameActive
    /\ currentDifficulty = "easy"
    /\ Cardinality(emptyCells(board)) = 4
    /\ findStrategicMove(board, aiMarker) = -1
    /\ aiResult = 8
    /\ board[8] = ""

\* the PvP games counted in the statistics
pvpGames == stats.pvp.X.wins + stats.pvp.O.wins + stats.pvp.X.draws

\* C37: from the zeroed counters on, the PvP counters mirror each other: the wins
\* of X are the losses of O, the wins of O the losses of X, the draws are the
\* same; and the wins of both and the draws add up to the number of finished PvP
\* games: nothing at the start, one more with every PvP game that ends, and the
\* same after every other step.
C37_PvpSymmetric ==
    /\ pvpGames = 0
    /\ [](/\ stats.pvp.X.wins = stats.pvp.O.losses
          /\ stats.pvp.O.wins = stats.pvp.X.losses
          /\ stats.pvp.X.draws = stats.pvp.O.draws)
    /\ [][pvpGames' = (IF currentMode = "pvp" /\ lastOp'.op \in {"move", "timer"}
                          /\ lastOp'.outcome \in {"won", "drawn"}
                       THEN pvpGames + 1 ELSE pvpGames)]_vars

\* two PvP games have been finished, one won by X and one by O
C37_Witness ==
    /\ lastOp.outcome = "won"
    /\ currentMode = "pvp"
    /\ stats.pvp.X.wins = 1
    /\ stats.pvp.O.wins = 1
    /\ stats.pvp.X.losses = 1
    /\ stats.pvp.O.losses = 1
    /\ pvpGames = 2

====
